---- MODULE Spec2Model ----
(***************************************************************************)
(* Model of the movie watchlist backend (src/backend): the movies,         *)
(* favorite_directors and seen_countries tables and the HTTP handlers that *)
(* change them (add_movie, CSV processing, profile export/import, tracked  *)
(* lists).                                                                 *)
(*                                                                         *)
(* Conventions.  A Python string is a sequence of fragments (characters,   *)
(* or longer fragments that the modelled code never looks inside); equal   *)
(* strings have equal fragment sequences.  Null stands for Python None /   *)
(* SQL NULL in a string- or list-valued place, NullInt in an integer one.  *)
(* Every handler runs in one SQLAlchemy session and is one action: the     *)
(* variables hold the committed database between requests.  SpecRace alone *)
(* splits add_movie into its read and its write, for calls that worker     *)
(* threads serve side by side.                                             *)
(***************************************************************************)
EXTENDS Integers, Sequences, FiniteSets, TLC

VARIABLES
    movies,      \* rows of the movies table
    directors,   \* director_name of the rows of favorite_directors
    countries,   \* country_name of the rows of seen_countries
    nextId,      \* next id the movies table hands out
    background,  \* BackgroundTasks scheduled by responses and not yet run
    exported,    \* the profile a client downloaded last, with the store it was taken from
    resp,        \* the request being answered and its response, Idle between requests
    guest_sessions,  \* _guest_sessions: the metadata of the registered guest sessions
    guest_schemas,   \* session ids whose guest schema / guest tables exist in the database
    users,           \* ids of the rows of the users table
    nextSession,     \* the session id uuid4() hands out next
    now,             \* datetime.utcnow(), in clock ticks
    inflight         \* the add_movie requests that worker threads are serving side by side

vars == <<movies, directors, countries, nextId, background, exported, resp,
          guest_sessions, guest_schemas, users, nextSession, now, inflight>>

\* what the watchlist handlers leave alone
authVars == <<guest_sessions, guest_schemas, users, nextSession, now, inflight>>

\* what the authentication functions leave alone
storeVars == <<movies, directors, countries, nextId, background, exported, inflight>>

\* ---------------------------------------------------------------- bounds
MaxId == 2          \* rows ever inserted into movies (ids 1..MaxId)
MaxCsvLen == 2      \* rows of an uploaded CSV
MaxProfileLen == 2  \* entries of the "movies" array of a profile
MaxNames == 2       \* entries of favorite_directors / seen_countries
MaxPending == 1     \* background tasks waiting to run
MaxSelLen == 1      \* entries of selections.movies_to_add
MaxRemove == 1      \* ids of selections.movies_to_remove_ids
MaxSessions == 2    \* guest sessions ever created
MaxUsers == 1       \* rows of the users table
MaxDrift == 2       \* half seconds the clock moves within one period
MaxJumps == 1       \* whole session lifetimes the clock moves
MaxGroups == 2      \* groups of list_filters.or_groups
MaxAnd == 1         \* entries of list_filters.and_filters
MaxFlat == 2        \* entries of a flat list_filters object
MaxThreads == 2     \* add_movie requests served side by side

\* ------------------------------------------------------- values, strings
Null == <<"<null>">>
NullInt == -1

Str(s) == <<s>>

Falsy(s) == s = Null \/ s = <<>>

IsSpace(c) == c = " "

RECURSIVE LStrip(_)
LStrip(s) == IF s # <<>> /\ IsSpace(Head(s)) THEN LStrip(Tail(s)) ELSE s

RECURSIVE RStrip(_)
RStrip(s) ==
    IF s # <<>> /\ IsSpace(s[Len(s)]) THEN RStrip(SubSeq(s, 1, Len(s) - 1)) ELSE s

\* str.strip()
Strip(s) == RStrip(LStrip(s))

LowerChar(c) ==
    CASE c = "A" -> "a"
      [] c = "B" -> "b"
      [] c = "C" -> "c"
      [] c = "T" -> "t"
      [] c = "H" -> "h"
      [] c = "E" -> "e"
      [] OTHER -> c

\* str.lower()
Lower(s) == [i \in DOMAIN s |-> LowerChar(s[i])]

\* str.replace(' ', '-')
ReplaceSpaceByHyphen(s) == [i \in DOMAIN s |-> IF s[i] = " " THEN "-" ELSE s[i]]

\* f"letterboxd:film/{title.lower().replace(' ', '-')}-{year}"
GeneratedUri(title, year) ==
    <<"letterboxd:film/">> \o ReplaceSpaceByHyphen(Lower(title)) \o <<"-", ToString(year)>>

ValidYear(year) == year # NullInt /\ year # 0 /\ year >= 1888 /\ year <= 2100

\* ------------------------------------------------------------- database
\* a movies table created without the UNIQUE constraint
NoUniqueConstraint(db, uri) == FALSE

\* UNIQUE on movies.letterboxd_uri: inserting a second row with the same
\* non-NULL URI raises IntegrityError at flush.
UniqueViolation(db, uri) ==
    uri # Null /\ \E m \in db : m.letterboxd_uri = uri

\* db.query(Movie).filter(Movie.letterboxd_uri == uri).first()
ByUri(db, uri) == {m \in db : m.letterboxd_uri = uri}

\* db.query(Movie).filter(Movie.title == title, Movie.year == year).first()
ByTitleYear(db, title, year) == {m \in db : m.title = title /\ m.year = year}

\* db.query(Movie).filter(Movie.id == movie_id).first()
ById(db, id) == {m \in db : m.id = id}

MinId(S) == CHOOSE i \in {m.id : m \in S} : \A j \in {m.id : m \in S} : i <= j

\* first row of a result in table order (rowid order)
First(S) == CHOOSE m \in S : m.id = MinId(S)

Uris(db) == {m.letterboxd_uri : m \in db}

\* ---------------------------------------------------------------- TMDB
\* tmdb_client.enrich_movie_data: None when the client is not configured or
\* the movie is not found, else the extracted fields.
NoTmdb == [found |-> FALSE]

TmdbHit ==
    [found |-> TRUE, director |-> Str("D"), country |-> Str("K"), runtime |-> 100,
     genres |-> <<"g">>, tmdb_id |-> 7, tmdb_data |-> Str("blob")]

TmdbAnswers == {NoTmdb, TmdbHit}

\* extract_enriched_data_from_tmdb(cached_movie.tmdb_data)
ExtractEnriched(tmdb_data) ==
    [found |-> TRUE, director |-> Str("D"), country |-> Str("K"), runtime |-> 100,
     genres |-> <<"g">>, tmdb_id |-> 7, tmdb_data |-> tmdb_data]

\* the cached-data-else-API choice made before a movie is created
Enrich(db, title, year, tmdb) ==
    LET cached == ByTitleYear(db, title, year)
    IN  IF cached # {} /\ ~Falsy(First(cached).tmdb_data)
        THEN ExtractEnriched(First(cached).tmdb_data)
        ELSE tmdb

\* Movie(**movie_kwargs)
NewMovie(id, title, year, uri, e, created, fav, seen, notes) ==
    [id |-> id, title |-> title, year |-> year, letterboxd_uri |-> uri,
     director |-> IF e.found THEN e.director ELSE Null,
     country |-> IF e.found THEN e.country ELSE Null,
     runtime |-> IF e.found THEN e.runtime ELSE NullInt,
     genres |-> IF e.found THEN e.genres ELSE <<>>,
     tmdb_id |-> IF e.found THEN e.tmdb_id ELSE NullInt,
     tmdb_data |-> IF e.found THEN e.tmdb_data ELSE Null,
     is_favorite |-> fav, seen_before |-> seen, notes |-> notes,
     created_at |-> created, updated_at |-> Null, lists |-> {}]

\* updated_at = Column(..., onupdate=func.now()): the UPDATE the session
\* flushes for a row with a changed attribute sets updated_at as well; a row
\* whose attributes were set to the values they had is not written
OrmUpdate(m, changed) ==
    IF changed = m THEN m ELSE [changed EXCEPT !.updated_at = Str("now")]

\* -------------------------------------------------------- tracked lists
\* str.startswith(prefix)
StartsWith(s, prefix) ==
    Len(s) >= Len(prefix) /\ SubSeq(s, 1, Len(prefix)) = prefix

\* normalize_uri: the path after boxd.it/ or letterboxd.com/ of a full URL
NormalizeUri(uri) ==
    IF Falsy(uri) THEN <<>>
    ELSE LET u == Strip(uri)
         IN  IF u # <<>> /\ Head(u) \in {"https://boxd.it/", "https://letterboxd.com/"}
             THEN Tail(u)
             ELSE u

\* one pass of the loop over ['the ', 'a ', 'an ']
DropArticle(s, article) ==
    IF StartsWith(s, article) THEN Strip(SubSeq(s, Len(article) + 1, Len(s))) ELSE s

IsAlnumOrSpace(c) == c \in {"a", "b", "c", "d", "e", "h", "n", "t", "1", "2", " "}

RECURSIVE CollapseSpaces(_)
CollapseSpaces(s) ==
    IF Len(s) < 2 THEN s
    ELSE IF IsSpace(s[1]) /\ IsSpace(s[2]) THEN CollapseSpaces(Tail(s))
    ELSE <<Head(s)>> \o CollapseSpaces(Tail(s))

\* normalize_title
NormalizeTitle(title) ==
    IF Falsy(title) THEN <<>>
    ELSE LET n0 == Strip(Lower(title))
             n1 == DropArticle(n0, <<"t", "h", "e", " ">>)
             n2 == DropArticle(n1, <<"a", " ">>)
             n3 == DropArticle(n2, <<"a", "n", " ">>)
             n4 == SelectSeq(n3, IsAlnumOrSpace)
         IN  Strip(CollapseSpaces(n4))

\* match_movie_by_uri: the id of the matched movie, 0 for None
NoMovie == 0

\* .limit(5000) of the fallback query
CANDIDATE_LIMIT == 5000

\* db.query(Movie).filter(Movie.letterboxd_uri.isnot(None))
WithUri(db) == {m \in db : m.letterboxd_uri # Null}

\* last row of a result in table order
Last(S) == CHOOSE m \in S : \A n \in S : n.id <= m.id

\* the k first and the k last rows of S in table order
RECURSIVE Lowest(_, _)
Lowest(S, k) == IF k = 0 THEN {} ELSE {First(S)} \cup Lowest(S \ {First(S)}, k - 1)

RECURSIVE Highest(_, _)
Highest(S, k) == IF k = 0 THEN {} ELSE {Last(S)} \cup Highest(S \ {Last(S)}, k - 1)

\* the rows .limit(5000) leaves out of the fallback query: none while the
\* table has at most 5000 rows with a URI.  Beyond that the rows read are
\* the first 5000 of a scan whose order the query does not fix; the scans in
\* ascending and in descending id order are kept.
Cuts(db) ==
    LET over == Cardinality(WithUri(db)) - CANDIDATE_LIMIT
    IN  IF over <= 0 THEN {{}}
        ELSE {Highest(WithUri(db), over), Lowest(WithUri(db), over)}

\* match_movie_by_uri when the fallback query leaves out the rows of cut
MatchMovieByUriCut(db, uri, cut) ==
    IF Falsy(uri) THEN NoMovie
    ELSE IF ByUri(db, uri) # {} THEN First(ByUri(db, uri)).id
    ELSE LET n == NormalizeUri(uri)
         IN  IF n = <<>> THEN NoMovie
             ELSE IF ByUri(db, n) # {} THEN First(ByUri(db, n)).id
             ELSE LET c == {m \in WithUri(db) \ cut : NormalizeUri(m.letterboxd_uri) = n}
                  IN  IF c # {} THEN First(c).id ELSE NoMovie

MatchMovieByUri(db, uri) == MatchMovieByUriCut(db, uri, CHOOSE cut \in Cuts(db) : TRUE)

\* match_movie_by_title_year
MatchMovieByTitleYear(db, title, year) ==
    IF Falsy(title) \/ year = NullInt \/ year = 0 THEN NoMovie
    ELSE LET exact == {m \in db : m.title # Null /\ Lower(m.title) = Lower(title)
                                   /\ m.year = year}
             norm == {m \in db : m.year = year
                                  /\ NormalizeTitle(m.title) = NormalizeTitle(title)}
         IN  IF Cardinality(exact) = 1 THEN First(exact).id
             ELSE IF norm # {} THEN First(norm).id
             ELSE NoMovie

\* the tracked-lists directory: the files in sorted order, each with its
\* column name and its parsed entries
TrackedListFiles ==
    << [column |-> "is_top",
        movies |-> << [name |-> <<"T", "h", "e", " ", "C">>, year |-> 1999,
                       letterboxd_uri |-> Null],
                      [name |-> <<"n", "n">>, year |-> NullInt,
                       letterboxd_uri |-> <<"https://letterboxd.com/", "film/b">>] >>] >>

TrackedColumns == {TrackedListFiles[i].column : i \in DOMAIN TrackedListFiles}

\* UPDATE movies SET column = 1 WHERE id = :movie_id
SetFlag(db, id, column) ==
    {IF m.id = id THEN [m EXCEPT !.lists = @ \cup {column}] ELSE m : m \in db}

\* process_tracked_list, one row: the URI first, then title and year when the
\* URI found nothing and the row has a name and a year
MatchEntry(db, e) ==
    LET byUri == IF ~Falsy(e.letterboxd_uri)
                 THEN MatchMovieByUri(db, e.letterboxd_uri) ELSE NoMovie
    IN  IF byUri = NoMovie /\ ~Falsy(e.name) /\ e.year # NullInt /\ e.year # 0
        THEN MatchMovieByTitleYear(db, e.name, e.year)
        ELSE byUri

\* process_tracked_list: match every entry of one list and set its column
RECURSIVE ProcessTrackedList(_, _, _)
ProcessTrackedList(db, entries, column) ==
    IF entries = <<>> THEN db
    ELSE LET hit == MatchEntry(db, Head(entries))
         IN  ProcessTrackedList(IF hit = NoMovie THEN db ELSE SetFlag(db, hit, column),
                                Tail(entries), column)

RECURSIVE ProcessLists(_, _)
ProcessLists(db, files) ==
    IF files = <<>> THEN db
    ELSE ProcessLists(ProcessTrackedList(db, Head(files).movies, Head(files).column),
                      Tail(files))

\* the columns of the files of a directory
ColumnsOf(files) == {files[i].column : i \in DOMAIN files}

\* a pass that marks the matches on top of the flags already stored
MarkWithoutReset(db, files) == ProcessLists(db, files)

\* process_all_tracked_lists over a directory: reset the column of every
\* file, then mark matches
ProcessAllTrackedListsIn(db, files) ==
    ProcessLists({[m EXCEPT !.lists = @ \ ColumnsOf(files)] : m \in db}, files)

\* process_all_tracked_lists over the project's tracked-lists directory
ProcessAllTrackedLists(db) == ProcessAllTrackedListsIn(db, TrackedListFiles)

\* check_movie_in_tracked_lists sets the list attributes on the ORM object
\* with setattr; they are not mapped columns of Movie, so the flush writes
\* nothing and the stored row is what it was.
CheckMovieInTrackedLists(m) == m

\* ------------------------------------------------------------ responses
Response(op, status, req, out) == [op |-> op, status |-> status, req |-> req, out |-> out]

\* no request is being answered
Idle == Response("idle", 0, <<>>, <<>>)

\* requests are served one at a time
Ready == resp = Idle

\* the response has been sent to the end and the request is over
Complete ==
    /\ ~Ready
    /\ resp' = Idle
    /\ UNCHANGED <<movies, directors, countries, nextId, background, exported>>
    /\ UNCHANGED authVars

\* ------------------------------------------------------------ add_movie
\* the optional string fields of the body: stripped, None when empty
StripOrNull(s) == IF Falsy(s) \/ Strip(s) = <<>> THEN Null ELSE Strip(s)

AddMovieTitle(body) == IF Falsy(body.title) THEN <<>> ELSE Strip(body.title)

\* the duplicate looked up before inserting: by URI when one was supplied,
\* else (or when that finds nothing) by title and year
AddMovieExisting(db, body) ==
    LET uri == StripOrNull(body.letterboxd_uri)
        byUri == IF uri # Null THEN ByUri(db, uri) ELSE {}
    IN  IF byUri # {} THEN byUri ELSE ByTitleYear(db, AddMovieTitle(body), body.year)

AddMovieUri(body) ==
    IF StripOrNull(body.letterboxd_uri) # Null
    THEN StripOrNull(body.letterboxd_uri)
    ELSE GeneratedUri(AddMovieTitle(body), body.year)

AddMovie(body, tmdb) ==
    LET title == AddMovieTitle(body)
        existing == AddMovieExisting(movies, body)
        uri == AddMovieUri(body)
        movie == CheckMovieInTrackedLists(
                     NewMovie(nextId, title, body.year, uri,
                              Enrich(movies, title, body.year, tmdb), Str("now"),
                              body.is_favorite, body.seen_before,
                              StripOrNull(body.notes)))
    IN  /\ UNCHANGED <<directors, countries, background, exported>>
        /\ IF title = <<>> \/ ~ValidYear(body.year)
           THEN /\ resp' = Response("add_movie", 400, body, <<>>)
                /\ UNCHANGED <<movies, nextId>>
           ELSE IF existing # {}
           THEN /\ resp' = Response("add_movie", 409, body, <<>>)
                /\ UNCHANGED <<movies, nextId>>
           ELSE IF UniqueViolation(movies, uri)
           THEN \* IntegrityError at db.flush(): not caught, the request fails
                \* and the session is closed without a commit
                /\ resp' = Response("add_movie", 500, body, <<>>)
                /\ UNCHANGED <<movies, nextId>>
           ELSE /\ nextId <= MaxId
                /\ movies' = movies \cup {movie}
                /\ nextId' = nextId + 1
                /\ resp' = Response("add_movie", 200, body, movie)

\* ----------------------------------- add_movie in concurrent worker threads
\* add_movie is a plain def: the server runs each call in a thread of its
\* pool, with a session of its own.  A call reads the committed table when it
\* looks for a duplicate, and writes when it flushes and commits.
NoRequest == [pc |-> "idle", body |-> <<>>, status |-> 0]

NoRequests == [i \in 1..MaxThreads |-> NoRequest]

\* the call of thread i up to the duplicate check: 400, 409, or on to the insert
AddMovieCheck(i, body) ==
    /\ inflight[i].pc = "idle"
    /\ inflight' =
           [inflight EXCEPT ![i] =
               IF AddMovieTitle(body) = <<>> \/ ~ValidYear(body.year)
               THEN [pc |-> "done", body |-> body, status |-> 400]
               ELSE IF AddMovieExisting(movies, body) # {}
               THEN [pc |-> "done", body |-> body, status |-> 409]
               ELSE [pc |-> "insert", body |-> body, status |-> 0]]
    /\ UNCHANGED <<movies, directors, countries, nextId, background, exported, resp>>

\* the rest of the call of thread i: Movie(**movie_kwargs), flush, commit
AddMovieInsert(i, tmdb) ==
    LET body == inflight[i].body
        title == AddMovieTitle(body)
        uri == AddMovieUri(body)
        movie == CheckMovieInTrackedLists(
                     NewMovie(nextId, title, body.year, uri,
                              Enrich(movies, title, body.year, tmdb), Str("now"),
                              body.is_favorite, body.seen_before,
                              StripOrNull(body.notes)))
    IN  /\ inflight[i].pc = "insert"
        /\ UNCHANGED <<directors, countries, background, exported, resp>>
        /\ IF UniqueViolation(movies, uri)
           THEN \* IntegrityError at db.flush(): not caught
                /\ inflight' = [inflight EXCEPT ![i].pc = "done", ![i].status = 500]
                /\ UNCHANGED <<movies, nextId>>
           ELSE /\ nextId <= MaxId
                /\ movies' = movies \cup {movie}
                /\ nextId' = nextId + 1
                /\ inflight' = [inflight EXCEPT ![i].pc = "done", ![i].status = 200]

\* the response of thread i has been sent
AddMovieReturn(i) ==
    /\ inflight[i].pc = "done"
    /\ inflight' = [inflight EXCEPT ![i] = NoRequest]
    /\ UNCHANGED <<movies, directors, countries, nextId, background, exported, resp>>

\* ------------------------------------------- delete_movie, clear_cache
DeleteMovie(movie_id) ==
    /\ UNCHANGED <<directors, countries, background, exported, nextId>>
    /\ IF ById(movies, movie_id) = {}
       THEN /\ resp' = Response("delete_movie", 404, movie_id, <<>>)
            /\ UNCHANGED movies
       ELSE /\ movies' = movies \ ById(movies, movie_id)
            /\ resp' = Response("delete_movie", 200, movie_id, <<>>)

ClearCache ==
    /\ movies' = {}
    /\ resp' = Response("clear_cache", 200, <<>>, Cardinality(movies))
    /\ UNCHANGED <<directors, countries, background, exported, nextId>>

\* ----------------------------------------------------- watchlist CSV
\* parse_watchlist_csv: rows with a year outside 1888..2100 or without a
\* name or URI are dropped, the others cleaned
CsvRowOk(r) ==
    /\ r.year # NullInt /\ r.year >= 1888 /\ r.year <= 2100
    /\ Strip(r.name) # <<>>
    /\ Strip(r.letterboxd_uri) # <<>>

CleanCsvRow(r) ==
    [name |-> Strip(r.name), year |-> r.year,
     letterboxd_uri |-> Strip(r.letterboxd_uri), date_added |-> r.date]

RECURSIVE ParseWatchlistCsv(_)
ParseWatchlistCsv(raw) ==
    IF raw = <<>> THEN <<>>
    ELSE IF CsvRowOk(Head(raw))
         THEN <<CleanCsvRow(Head(raw))>> \o ParseWatchlistCsv(Tail(raw))
         ELSE ParseWatchlistCsv(Tail(raw))

\* existing.created_at = date_from_csv, when the row carries a date
TouchCreatedAt(db, m, row) ==
    IF Falsy(row.date_added) THEN db
    ELSE (db \ {m}) \cup {OrmUpdate(m, [m EXCEPT !.created_at = row.date_added])}

CreatedAtOf(row) == IF Falsy(row.date_added) THEN Str("now") ELSE row.date_added

\* the server-sent events of the streaming handlers
Event(current, total, processed, skipped, removed, done) ==
    [current |-> current, total |-> total, processed |-> processed,
     skipped |-> skipped, removed |-> removed, done |-> done, error |-> FALSE]

ErrorEvent ==
    [current |-> 0, total |-> 0, processed |-> 0, skipped |-> 0, removed |-> 0,
     done |-> TRUE, error |-> TRUE]

\* --------------------------------------------------- process_csv_stream
\* a found row that is reported but not counted
CsvSkipRowUncounted(st, m, row, index, total) ==
    [st EXCEPT !.db = TouchCreatedAt(@, m, row),
               !.events = Append(@, Event(index, total, st.processed, st.skipped,
                                          0, FALSE))]

\* one row of the loop that was found in the database
CsvSkipRow(st, m, row, index, total) ==
    [st EXCEPT !.db = TouchCreatedAt(@, m, row),
               !.skipped = @ + 1,
               !.events = Append(@, Event(index, total, st.processed, st.skipped + 1,
                                          0, FALSE))]

\* one row of the loop that is new: Movie(...), db.add, db.flush
CsvAddRow(st, row, index, total, tmdb) ==
    IF UniqueViolation(st.db, row.letterboxd_uri)
    THEN [st EXCEPT !.failed = TRUE]
    ELSE [st EXCEPT
            !.db = @ \cup {CheckMovieInTrackedLists(
                               NewMovie(st.nid, row.name, row.year, row.letterboxd_uri,
                                        Enrich(st.db, row.name, row.year, tmdb),
                                        CreatedAtOf(row), FALSE, FALSE, Null))},
            !.nid = @ + 1,
            !.processed = @ + 1,
            !.events = Append(@, Event(index, total, st.processed + 1, st.skipped,
                                       0, FALSE))]

RECURSIVE CsvLoop(_, _, _, _)
CsvLoop(st, rows, index, tmdb) ==
    IF index > Len(rows) \/ st.failed THEN st
    ELSE LET row == rows[index]
             byUri == ByUri(st.db, row.letterboxd_uri)
             existing == IF byUri # {} THEN byUri
                         ELSE ByTitleYear(st.db, row.name, row.year)
         IN  CsvLoop(IF existing # {}
                     THEN CsvSkipRow(st, First(existing), row, index, Len(rows))
                     ELSE CsvAddRow(st, row, index, Len(rows), tmdb),
                     rows, index + 1, tmdb)

LoopStart(db, nid, total) ==
    [db |-> db, nid |-> nid, processed |-> 0, skipped |-> 0, removed |-> 0,
     failed |-> FALSE, events |-> <<Event(0, total, 0, 0, 0, FALSE)>>]

\* the whole generator: parse, loop, commit, process_all_tracked_lists,
\* final event; any exception rolls the session back
ProcessCsvStreamResult(db, nid, csv, tmdb) ==
    IF ~csv.readable
    THEN [db |-> db, nid |-> nid, events |-> <<ErrorEvent>>]
    ELSE LET rows == ParseWatchlistCsv(csv.rows)
             st == CsvLoop(LoopStart(db, nid, Len(rows)), rows, 1, tmdb)
         IN  IF st.failed
             THEN [db |-> db, nid |-> nid, events |-> Append(st.events, ErrorEvent)]
             ELSE [db |-> ProcessAllTrackedLists(st.db), nid |-> st.nid,
                   events |-> Append(st.events,
                                     Event(Len(rows), Len(rows), st.processed,
                                           st.skipped, 0, TRUE))]

ProcessCsvStream(csv, tmdb) ==
    LET r == ProcessCsvStreamResult(movies, nextId, csv, tmdb)
    IN  /\ r.nid <= MaxId + 1
        /\ movies' = r.db
        /\ nextId' = r.nid
        /\ resp' = Response("process_csv_stream", 200, csv, r.events)
        /\ UNCHANGED <<directors, countries, background, exported>>

\* ---------------------------------------------------------- preview_csv
RECURSIVE MoviesToAdd(_, _)
MoviesToAdd(rows, existing_uris) ==
    IF rows = <<>> THEN <<>>
    ELSE IF Head(rows).letterboxd_uri \notin existing_uris
         THEN <<[name |-> Head(rows).name, year |-> Head(rows).year,
                 letterboxd_uri |-> Head(rows).letterboxd_uri]>>
              \o MoviesToAdd(Tail(rows), existing_uris)
         ELSE MoviesToAdd(Tail(rows), existing_uris)

\* every stored movie is offered for removal
MoviesToRemoveUnfiltered(db, csv_uris) ==
    {[id |-> m.id, title |-> m.title, year |-> m.year,
      letterboxd_uri |-> m.letterboxd_uri] : m \in db}

MoviesToRemove(db, csv_uris) ==
    {[id |-> m.id, title |-> m.title, year |-> m.year,
      letterboxd_uri |-> m.letterboxd_uri] :
        m \in {n \in db : ~Falsy(n.letterboxd_uri) /\ n.letterboxd_uri \notin csv_uris}}

PreviewCsvResult(db, rows) ==
    LET csv_uris == {rows[i].letterboxd_uri : i \in DOMAIN rows}
        existing_uris == {m.letterboxd_uri : m \in {n \in db : ~Falsy(n.letterboxd_uri)}}
    IN  [movies_to_add |-> MoviesToAdd(rows, existing_uris),
         movies_to_remove |-> MoviesToRemove(db, csv_uris)]

PreviewCsv(csv) ==
    /\ resp' = IF ~csv.readable
               THEN Response("preview_csv", 400, csv, <<>>)
               ELSE Response("preview_csv", 200, csv,
                             PreviewCsvResult(movies, ParseWatchlistCsv(csv.rows)))
    /\ UNCHANGED <<movies, directors, countries, nextId, background, exported>>

\* ----------------------------------- process_csv_with_selections_stream
\* movies_to_add_map: the selection entry kept for a URI is the last one
SelectedUris(movies_to_add) ==
    {movies_to_add[i].letterboxd_uri : i \in DOMAIN movies_to_add}

SelectedEntry(movies_to_add, uri) ==
    LET idx == {i \in DOMAIN movies_to_add : movies_to_add[i].letterboxd_uri = uri}
    IN  movies_to_add[CHOOSE i \in idx : \A j \in idx : j <= i]

\* every id of the table, whatever was selected
EveryId(S) == [i \in 1..MaxId |-> i]

\* ids of a set in iteration order
RECURSIVE SortedIds(_)
SortedIds(S) ==
    IF S = {} THEN <<>>
    ELSE LET lo == CHOOSE i \in S : \A j \in S : i <= j
         IN  <<lo>> \o SortedIds(S \ {lo})

\* the removal loop: db.delete for every selected id that is stored
RECURSIVE RemoveLoop(_, _, _)
RemoveLoop(st, ids, total) ==
    IF ids = <<>> THEN st
    ELSE LET found == ById(st.db, Head(ids)) # {}
             removed == IF found THEN st.removed + 1 ELSE st.removed
             skipped == IF found THEN st.skipped ELSE st.skipped + 1
         IN  RemoveLoop([st EXCEPT
                            !.db = @ \ ById(st.db, Head(ids)),
                            !.removed = removed,
                            !.skipped = skipped,
                            !.events = Append(@, Event(removed + skipped, total, 0,
                                                       skipped, removed, FALSE))],
                        Tail(ids), total)

SelSkipRow(st, m, row, total) ==
    [st EXCEPT !.db = TouchCreatedAt(@, m, row),
               !.skipped = @ + 1,
               !.events = Append(@, Event(st.processed + st.removed + st.skipped + 1,
                                          total, st.processed, st.skipped + 1,
                                          st.removed, FALSE))]

SelAddRow(st, row, sel, total, tmdb) ==
    IF UniqueViolation(st.db, row.letterboxd_uri)
    THEN [st EXCEPT !.failed = TRUE]
    ELSE [st EXCEPT
            !.db = @ \cup {CheckMovieInTrackedLists(
                               NewMovie(st.nid, row.name, row.year, row.letterboxd_uri,
                                        Enrich(st.db, row.name, row.year, tmdb),
                                        CreatedAtOf(row), sel.is_favorite,
                                        sel.seen_before, Null))},
            !.nid = @ + 1,
            !.processed = @ + 1,
            !.events = Append(@, Event(st.processed + 1 + st.removed + st.skipped,
                                       total, st.processed + 1, st.skipped,
                                       st.removed, FALSE))]

\* the addition loop: only rows whose URI is in the selection
RECURSIVE SelLoop(_, _, _, _, _)
SelLoop(st, rows, movies_to_add, total, tmdb) ==
    IF rows = <<>> \/ st.failed THEN st
    ELSE LET row == Head(rows)
             existing == ByUri(st.db, row.letterboxd_uri)
         IN  SelLoop(IF row.letterboxd_uri \notin SelectedUris(movies_to_add) THEN st
                     ELSE IF existing # {}
                     THEN SelSkipRow(st, First(existing), row, total)
                     ELSE SelAddRow(st, row,
                                    SelectedEntry(movies_to_add, row.letterboxd_uri),
                                    total, tmdb),
                     Tail(rows), movies_to_add, total, tmdb)

ProcessCsvWithSelectionsResult(db, nid, csv, selections, tmdb) ==
    LET total_remove == Cardinality(selections.movies_to_remove_ids)
        total == Len(selections.movies_to_add) + total_remove
        rem == RemoveLoop(LoopStart(db, nid, total),
                          SortedIds(selections.movies_to_remove_ids), total)
    IN  IF selections.movies_to_add = <<>>
        THEN \* removals committed, nothing to add: no tracked-list pass
             [db |-> rem.db, nid |-> nid,
              events |-> Append(rem.events,
                                Event(total_remove, total_remove, 0, rem.skipped,
                                      rem.removed, TRUE))]
        ELSE IF ~csv.readable
        THEN \* parse error after the removals were committed
             [db |-> rem.db, nid |-> nid, events |-> Append(rem.events, ErrorEvent)]
        ELSE LET st == SelLoop(rem, ParseWatchlistCsv(csv.rows),
                               selections.movies_to_add, total, tmdb)
             IN  IF st.failed
                 THEN [db |-> rem.db, nid |-> nid,
                       events |-> Append(st.events, ErrorEvent)]
                 ELSE [db |-> ProcessAllTrackedLists(st.db), nid |-> st.nid,
                       events |-> Append(st.events,
                                         Event(total, total, st.processed, st.skipped,
                                               st.removed, TRUE))]

ProcessCsvWithSelections(csv, selections, tmdb) ==
    LET r == ProcessCsvWithSelectionsResult(movies, nextId, csv, selections, tmdb)
    IN  /\ r.nid <= MaxId + 1
        /\ movies' = r.db
        /\ nextId' = r.nid
        /\ resp' = Response("process_csv_with_selections_stream", 200,
                            [csv |-> csv, selections |-> selections], r.events)
        /\ UNCHANGED <<directors, countries, background, exported>>

\* ------------------------------------- favorite directors, seen countries
AddFavoriteDirector(director_name) ==
    /\ directors' = directors \cup {director_name}
    /\ resp' = Response("add_favorite_director", 200, director_name, <<>>)
    /\ UNCHANGED <<movies, countries, nextId, background, exported>>

RemoveFavoriteDirector(director_name) ==
    /\ directors' = directors \ {director_name}
    /\ resp' = Response("remove_favorite_director",
                        IF director_name \in directors THEN 200 ELSE 404,
                        director_name, <<>>)
    /\ UNCHANGED <<movies, countries, nextId, background, exported>>

AddSeenCountry(country_name) ==
    /\ countries' = countries \cup {country_name}
    /\ resp' = Response("add_seen_country", 200, country_name, <<>>)
    /\ UNCHANGED <<movies, directors, nextId, background, exported>>

RemoveSeenCountry(country_name) ==
    /\ countries' = countries \ {country_name}
    /\ resp' = Response("remove_seen_country",
                        IF country_name \in countries THEN 200 ELSE 404,
                        country_name, <<>>)
    /\ UNCHANGED <<movies, directors, nextId, background, exported>>

\* ------------------- set_movie_favorite, set_movie_notes, set_movie_seen_before
\* the longest notes kept
NOTES_LIMIT == 5000

\* notes[:5000]
TruncateNotes(notes) ==
    IF ~Falsy(notes) /\ Len(notes) > NOTES_LIMIT THEN SubSeq(notes, 1, NOTES_LIMIT) ELSE notes

\* a setter that writes both flags
WithBothFlags(m, is_favorite) ==
    OrmUpdate(m, [m EXCEPT !.is_favorite = is_favorite, !.seen_before = is_favorite])

\* movie.is_favorite = is_favorite; db.commit()
WithFavorite(m, is_favorite) == OrmUpdate(m, [m EXCEPT !.is_favorite = is_favorite])

\* movie.seen_before = seen_before; db.commit()
WithSeenBefore(m, seen_before) == OrmUpdate(m, [m EXCEPT !.seen_before = seen_before])

\* movie.notes = notes; db.commit()
WithNotes(m, notes) == OrmUpdate(m, [m EXCEPT !.notes = TruncateNotes(notes)])

SetMovieFavorite(movie_id, is_favorite) ==
    /\ UNCHANGED <<directors, countries, nextId, background, exported>>
    /\ IF ById(movies, movie_id) = {}
       THEN /\ resp' = Response("set_movie_favorite", 404, movie_id, <<>>)
            /\ UNCHANGED movies
       ELSE /\ movies' = {IF m.id = movie_id THEN WithFavorite(m, is_favorite) ELSE m :
                             m \in movies}
            /\ resp' = Response("set_movie_favorite", 200, movie_id, is_favorite)

SetMovieNotes(movie_id, notes) ==
    /\ UNCHANGED <<directors, countries, nextId, background, exported>>
    /\ IF ById(movies, movie_id) = {}
       THEN /\ resp' = Response("set_movie_notes", 404, movie_id, <<>>)
            /\ UNCHANGED movies
       ELSE /\ movies' = {IF m.id = movie_id THEN WithNotes(m, notes) ELSE m :
                             m \in movies}
            /\ resp' = Response("set_movie_notes", 200, movie_id, TruncateNotes(notes))

SetMovieSeenBefore(movie_id, seen_before) ==
    /\ UNCHANGED <<directors, countries, nextId, background, exported>>
    /\ IF ById(movies, movie_id) = {}
       THEN /\ resp' = Response("set_movie_seen_before", 404, movie_id, <<>>)
            /\ UNCHANGED movies
       ELSE /\ movies' = {IF m.id = movie_id THEN WithSeenBefore(m, seen_before) ELSE m :
                             m \in movies}
            /\ resp' = Response("set_movie_seen_before", 200, movie_id, seen_before)

\* -------------------------------------------------------- profile export
\* rows of a table in table order
RECURSIVE RowsInOrder(_)
RowsInOrder(db) ==
    IF db = {} THEN <<>> ELSE <<First(db)>> \o RowsInOrder(db \ {First(db)})

RECURSIVE NamesInOrder(_)
NamesInOrder(S) ==
    IF S = {} THEN <<>>
    ELSE LET n == CHOOSE x \in S : TRUE IN <<n>> \o NamesInOrder(S \ {n})

\* the key is absent from the JSON object
Missing == <<"<missing>">>

\* movie_dict of export_profile_to_json
ExportMovie(m, include_tmdb_data) ==
    [is_object |-> TRUE,
     title |-> m.title, year |-> m.year, letterboxd_uri |-> m.letterboxd_uri,
     director |-> IF include_tmdb_data THEN m.director ELSE Null,
     country |-> IF include_tmdb_data THEN m.country ELSE Null,
     runtime |-> IF include_tmdb_data THEN m.runtime ELSE NullInt,
     genres |-> IF include_tmdb_data
                THEN (IF Falsy(m.genres) THEN <<>> ELSE m.genres)
                ELSE Missing,
     tmdb_id |-> m.tmdb_id,
     tmdb_data |-> IF include_tmdb_data /\ ~Falsy(m.tmdb_data) THEN m.tmdb_data ELSE Null,
     is_favorite |-> m.is_favorite,
     seen_before |-> m.seen_before,
     notes |-> IF Falsy(m.notes) THEN Null ELSE m.notes]

ExportProfileToJson(db, dirs, ctrs, include_tmdb_data) ==
    LET rows == RowsInOrder(db)
    IN  [is_object |-> TRUE, has_movies |-> TRUE, movies_is_list |-> TRUE,
         movies |-> [i \in DOMAIN rows |-> ExportMovie(rows[i], include_tmdb_data)],
         favorite_directors |-> NamesInOrder(dirs),
         seen_countries |-> NamesInOrder(ctrs)]

\* -------------------------------------------------------- profile import
FLUSH_INTERVAL == 25
PROGRESS_INTERVAL == 25

ImportEvent(phase, current, total, imported, failed) ==
    [import_phase |-> phase, current |-> current, total |-> total,
     imported |-> imported, failed |-> failed, done |-> FALSE, error |-> FALSE]

\* an import that does not clear the table
KeepForImport(table) == table

\* "Clear existing database": every row of the table is deleted
ClearForImport(table) == {}

\* an entry of the "movies" array that is imported: an object with a
\* letterboxd_uri
ValidEntry(e) == e.is_object /\ ~Falsy(e.letterboxd_uri)

\* Movie(title=movie_data.get("title"), ...)
ImportMovie(e, id) ==
    [id |-> id, title |-> e.title, year |-> e.year, letterboxd_uri |-> e.letterboxd_uri,
     director |-> e.director, country |-> e.country, runtime |-> e.runtime,
     genres |-> IF e.genres = Missing THEN <<>> ELSE e.genres,
     tmdb_id |-> e.tmdb_id, tmdb_data |-> e.tmdb_data,
     is_favorite |-> e.is_favorite, seen_before |-> e.seen_before, notes |-> e.notes,
     created_at |-> Str("now"), updated_at |-> Null, lists |-> {}]

\* db.flush() of one pending row; a failed flush rolls the transaction back
\* and leaves the session unusable until db.rollback()
FlushRow(st, e) ==
    IF st.failed \/ UniqueViolation(st.db, e.letterboxd_uri)
    THEN [st EXCEPT !.failed = TRUE]
    ELSE [st EXCEPT !.db = @ \cup {ImportMovie(e, st.nid)}, !.nid = @ + 1]

RECURSIVE FlushPending(_)
FlushPending(st) ==
    IF st.pending = <<>> THEN st
    ELSE FlushPending([FlushRow(st, Head(st.pending)) EXCEPT !.pending = Tail(st.pending)])

\* the loop over movies_data: count, db.add, periodic flush and progress
RECURSIVE ImportLoop(_, _, _)
ImportLoop(st, entries, idx) ==
    IF idx > Len(entries) THEN st
    ELSE LET e == entries[idx]
             counted == IF ValidEntry(e)
                        THEN [st EXCEPT !.pending = Append(@, e), !.imported = @ + 1]
                        ELSE [st EXCEPT !.movies_failed = @ + 1]
             flushed == IF idx % FLUSH_INTERVAL = 0 THEN FlushPending(counted) ELSE counted
             told == IF idx % PROGRESS_INTERVAL = 0
                     THEN [flushed EXCEPT
                             !.events = Append(@, ImportEvent("movies", idx, Len(entries),
                                                              flushed.imported,
                                                              flushed.movies_failed))]
                     ELSE flushed
         IN  ImportLoop(told, entries, idx + 1)

\* the names of favorite_directors / seen_countries that are added: valid
\* after strip() and not found by the query, which sees the flushed rows
\* only (the session is created with autoflush=False)
RECURSIVE PendingNames(_, _)
PendingNames(names, flushed) ==
    IF names = <<>> THEN <<>>
    ELSE IF ~Falsy(Head(names)) /\ Strip(Head(names)) # <<>>
            /\ Strip(Head(names)) \notin flushed
         THEN <<Strip(Head(names))>> \o PendingNames(Tail(names), flushed)
         ELSE PendingNames(Tail(names), flushed)

\* UNIQUE on director_name / country_name at the commit's flush
NamesFlushOk(pending, flushed) ==
    /\ \A i \in DOMAIN pending : pending[i] \notin flushed
    /\ \A i, j \in DOMAIN pending : i # j => pending[i] # pending[j]

SeqToSet(q) == {q[i] : i \in DOMAIN q}

\* a validation that only looks at the type of the document
ValidProfileObjectOnly(json_data) == json_data.is_object

\* "Validate JSON structure": a dict with a "movies" key holding a list
ValidProfile(json_data) ==
    json_data.is_object /\ json_data.has_movies /\ json_data.movies_is_list

\* import_profile_from_json_stream: the store when the generator ends, how
\* it ended and what it yielded
ImportProfileFromJsonStream(db, dirs, ctrs, nid, json_data) ==
    IF ~ValidProfile(json_data)
    THEN \* ValueError before anything is touched
         [db |-> db, dirs |-> dirs, ctrs |-> ctrs, nid |-> nid, outcome |-> "invalid",
          imported |-> 0, movies_failed |-> 0, events |-> <<>>]
    ELSE LET total == Len(json_data.movies)
             start == [db |-> ClearForImport(db), nid |-> nid, pending |-> <<>>,
                       failed |-> FALSE, imported |-> 0, movies_failed |-> 0,
                       events |-> <<ImportEvent("starting", 0, total, 0, 0)>>]
             st == FlushPending(ImportLoop(start, json_data.movies, 1))
             pd == PendingNames(json_data.favorite_directors, ClearForImport(dirs))
             pc == PendingNames(json_data.seen_countries, ClearForImport(ctrs))
         IN  IF st.failed
             THEN \* db.commit() raises, db.rollback(): the clearing is undone
                  [db |-> db, dirs |-> dirs, ctrs |-> ctrs, nid |-> nid,
                   outcome |-> "movies_commit_failed", imported |-> st.imported,
                   movies_failed |-> st.movies_failed, events |-> st.events]
             ELSE IF ~(NamesFlushOk(pd, ClearForImport(dirs))
                       /\ NamesFlushOk(pc, ClearForImport(ctrs)))
             THEN \* second commit fails after the movies were committed
                  [db |-> st.db, dirs |-> ClearForImport(dirs),
                   ctrs |-> ClearForImport(ctrs), nid |-> st.nid,
                   outcome |-> "names_commit_failed", imported |-> st.imported,
                   movies_failed |-> st.movies_failed, events |-> st.events]
             ELSE [db |-> st.db,
                   dirs |-> ClearForImport(dirs) \cup SeqToSet(pd),
                   ctrs |-> ClearForImport(ctrs) \cup SeqToSet(pc),
                   nid |-> st.nid, outcome |-> "complete", imported |-> st.imported,
                   movies_failed |-> st.movies_failed,
                   events |-> Append(st.events,
                                     [import_complete |-> TRUE,
                                      movies_imported |-> st.imported,
                                      movies_failed |-> st.movies_failed,
                                      done |-> FALSE, error |-> FALSE])]

\* ----------------------------------------------- import_profile (route)
\* needs_processing of generate_stream
NeedsTmdb(m) ==
    \/ Falsy(m.tmdb_data)
    \/ m.director = Null
    \/ m.country = Null
    \/ m.runtime = NullInt
    \/ m.genres = Null
    \/ m.genres = <<>>

\* the field updates of process_tmdb_data_stream for one movie
ApplyTmdb(m, e) ==
    IF ~e.found THEN m
    ELSE OrmUpdate(m, [m EXCEPT !.director = e.director, !.country = e.country,
                                !.runtime = e.runtime, !.genres = e.genres,
                                !.tmdb_id = e.tmdb_id, !.tmdb_data = e.tmdb_data])

\* the updates are committed and done is sent without a tracked-lists pass
TmdbWithoutTrackedLists(db, e) == {IF NeedsTmdb(m) THEN ApplyTmdb(m, e) ELSE m : m \in db}

\* process_tmdb_data_stream: update the movies, commit, then
\* process_all_tracked_lists, then the done event
ProcessTmdbDataStream(db, e) ==
    ProcessAllTrackedLists({IF NeedsTmdb(m) THEN ApplyTmdb(m, e) ELSE m : m \in db})

\* the events of process_tmdb_data_stream for total movies: the initial
\* progress, one progress event per movie, and the completion
TmdbEvent(current, total, processed, failed, done) ==
    [current |-> current, total |-> total, processed |-> processed,
     failed |-> failed, done |-> done, error |-> FALSE]

TmdbStreamEvents(total, e) ==
    <<TmdbEvent(0, total, 0, 0, FALSE)>>
    \o [i \in 1..total |->
           TmdbEvent(i, total, IF e.found THEN i ELSE 0, IF e.found THEN 0 ELSE i, FALSE)]
    \o <<TmdbEvent(total, total, IF e.found THEN total ELSE 0,
                   IF e.found THEN 0 ELSE total, TRUE)>>

\* the event every streaming handler yields from its except clause
StreamError == [done |-> TRUE, error |-> TRUE]

\* generate_stream of import_profile: everything the response carries, r
\* being the result of the import generator
GenerateStream(r, tmdb_branch, client) ==
    IF r.outcome # "complete"
    THEN \* the exception of the import generator is caught
         Append(r.events, StreamError)
    ELSE IF tmdb_branch
    THEN r.events
         \o <<[tmdb_processing_starting |-> TRUE, done |-> FALSE, error |-> FALSE]>>
         \o TmdbStreamEvents(Cardinality({m \in r.db : NeedsTmdb(m)}), client.answer)
    ELSE Append(r.events,
                [current |-> r.imported, total |-> r.imported,
                 processed |-> 0, failed |-> 0, tmdb_data_fetched |-> 0,
                 done |-> TRUE, error |-> FALSE])

\* the task import_profile hands to BackgroundTasks
TrackedListsTask == "process_tracked_lists_background"

\* the task export_profile hands to BackgroundTasks (os.unlink of the temp file)
UnlinkTask == "unlink_temp_file"

\* whether generate_stream takes the TMDB branch (else it sends done and
\* schedules the tracked-lists task)
TmdbBranch(db, imported, client) ==
    {m \in db : NeedsTmdb(m)} # {} /\ client.configured /\ imported > 0

\* the task is scheduled whichever branch is taken
SchedulesAfterEveryImport(outcome, tmdb_branch) == outcome = "complete"

SchedulesTrackedLists(outcome, tmdb_branch) == outcome = "complete" /\ ~tmdb_branch

ImportProfile(json_data, source, client) ==
    LET r == ImportProfileFromJsonStream(movies, directors, countries, nextId, json_data)
        branch == TmdbBranch(r.db, r.imported, client)
        sched == SchedulesTrackedLists(r.outcome, branch)
        after == [movies |-> r.db, directors |-> r.dirs, countries |-> r.ctrs]
    IN  /\ r.nid <= MaxId + 1
        /\ sched => Len(background) < MaxPending
        /\ nextId' = r.nid
        /\ directors' = r.dirs
        /\ countries' = r.ctrs
        /\ movies' = IF r.outcome = "complete" /\ branch
                     THEN ProcessTmdbDataStream(r.db, client.answer)
                     ELSE r.db
        /\ background' = IF sched THEN Append(background, TrackedListsTask)
                         ELSE background
        /\ resp' = Response("import_profile",
                            IF json_data.is_object THEN 200 ELSE 500,
                            [json_data |-> json_data, source |-> source],
                            [outcome |-> r.outcome, after_import |-> after,
                             movies_imported |-> r.imported,
                             movies_failed |-> r.movies_failed,
                             tmdb_branch |-> r.outcome = "complete" /\ branch,
                             scheduled |-> sched, events |-> r.events,
                             stream |-> GenerateStream(r, branch, client)])
        /\ UNCHANGED exported

\* a scheduled task runs after the response that scheduled it has ended
RunBackground ==
    /\ Ready
    /\ background # <<>>
    /\ background' = Tail(background)
    /\ movies' = IF Head(background) = TrackedListsTask
                 THEN ProcessAllTrackedLists(movies)
                 ELSE movies
    /\ UNCHANGED <<directors, countries, nextId, exported, resp>>
    /\ UNCHANGED authVars

\* -------------------------------------------------------- export_profile
ExportProfile(include_tmdb_data) ==
    /\ Len(background) < MaxPending
    /\ exported' = [taken |-> TRUE,
                    json_data |-> ExportProfileToJson(movies, directors, countries,
                                                      include_tmdb_data),
                    include_tmdb_data |-> include_tmdb_data,
                    movies |-> movies, directors |-> directors, countries |-> countries]
    /\ background' = Append(background, UnlinkTask)
    /\ resp' = Response("export_profile", 200, include_tmdb_data, <<>>)
    /\ UNCHANGED <<movies, directors, countries, nextId>>

\* ------------------------------------------- get_movies, list_filters
\* The parsed list_filters object: or_groups (a list of groups), and_filters
\* (an object) and flat, the entries under any other key.  An entry is a
\* name with the JSON value true, false or null; a group is an array of names
\* (each standing for name: true) or an object with a "filters" list.

\* the comparison an entry adds to the query: movies.<name> = 1 or = 0
Condition(e) == <<e.name, IF e.value = "true" THEN 1 ELSE 0>>

\* and_filters, or the whole object when it has neither or_groups nor
\* and_filters (the two keys themselves name no column)
AndFilters(doc) ==
    IF doc.or_groups = <<>> /\ doc.and_filters = {} THEN doc.flat ELSE doc.and_filters

\* the entries that reach the query: a tracked-list column and a value
Effective(entries, columns) ==
    {e \in entries : e.name \in columns /\ e.value # "null"}

\* group_conditions of one group
GroupConditions(group, columns) ==
    {Condition(e) :
         e \in Effective({group.members[k] : k \in DOMAIN group.members}, columns)}

\* a builder that lets every name through
ClausesOfAnyName(doc, columns) ==
    [ands |-> {Condition(e) : e \in {x \in AndFilters(doc) : x.value # "null"}},
     ors |-> {{Condition(group.members[k]) : k \in DOMAIN group.members} :
                  group \in {doc.or_groups[i] : i \in DOMAIN doc.or_groups}} \ {{}}]

\* the clauses the filter builder adds: the AND comparisons, and or_conditions,
\* one or_(...) per group that has a condition
ListFilterClauses(doc, columns) ==
    [ands |-> {Condition(e) : e \in Effective(AndFilters(doc), columns)},
     ors |-> {GroupConditions(doc.or_groups[i], columns) : i \in DOMAIN doc.or_groups}
                 \ {{}}]

\* movies.<column> = 1 / = 0 on a row; the columns default to 0
Satisfies(m, condition) == (condition[1] \in m.lists) <=> (condition[2] = 1)

\* the rows the filtered query returns
RunQuery(db, sql) ==
    {m \in db : /\ \A c \in sql.ands : Satisfies(m, c)
                /\ \A g \in sql.ors : \E c \in g : Satisfies(m, c)}

\* get_movies with list_filters and every other parameter at its default;
\* columns is what get_tracked_list_names() finds in the directory
GetMovies(doc, columns) ==
    /\ resp' = Response("get_movies", 200, [list_filters |-> doc, columns |-> columns],
                        [sql |-> ListFilterClauses(doc, columns),
                         movies |-> {m.id : m \in RunQuery(movies,
                                                  ListFilterClauses(doc, columns))}])
    /\ UNCHANGED storeVars

\* ------------------------------------------------- process_tracked_lists
ProcessTrackedListsIn(files) ==
    /\ movies' = ProcessAllTrackedListsIn(movies, files)
    /\ resp' = Response("process_tracked_lists", 200, files, <<>>)
    /\ UNCHANGED <<directors, countries, nextId, background, exported>>

ProcessTrackedLists == ProcessTrackedListsIn(TrackedListFiles)

\* ------------------------------------------------------------ the clock
\* datetime.utcnow() is read in ticks of half a second; a JWT carries whole
\* seconds
GUEST_EXPIRATION_HOURS == 24
JWT_EXPIRATION_HOURS == 24

\* timedelta(hours=h)
Hours(h) == h * 3600 * 2

\* timegm(dt.utctimetuple()): the seconds of a time, its fraction cut off
Seconds(t) == t \div 2

\* time passes between requests: half a second, or the life of a guest session
Tick(d) ==
    /\ Ready
    /\ \/ d = 1 /\ now % Hours(GUEST_EXPIRATION_HOURS) < MaxDrift
       \/ d = Hours(GUEST_EXPIRATION_HOURS)
          /\ now \div Hours(GUEST_EXPIRATION_HOURS) < MaxJumps
    /\ now' = now + d
    /\ UNCHANGED <<guest_sessions, guest_schemas, users, nextSession, resp>>
    /\ UNCHANGED storeVars

\* ------------------------------------------------------- guest sessions
\* get_guest_schema_name
GetGuestSchemaName(session_id) == <<"guest_", session_id>>

\* _guest_sessions.get(session_id): the metadata registered for the id
Registered(registry, session_id) == {g \in registry : g.session_id = session_id}

\* _guest_sessions.pop(session_id, None)
Pop(registry, session_id) == registry \ Registered(registry, session_id)

\* register_guest_session: _guest_sessions[session_id] = {...}
RegisterGuestSession(registry, session_id, created_at, expires_at) ==
    Pop(registry, session_id)
    \cup {[session_id |-> session_id, schema_name |-> GetGuestSchemaName(session_id),
           created_at |-> created_at, expires_at |-> expires_at]}

\* None
NoMeta == [session_id |-> NullInt]

\* a lookup that does not look at expires_at
LookupWithoutExpiry(registry, session_id, t) ==
    [registry |-> registry,
     meta |-> IF Registered(registry, session_id) = {} THEN NoMeta
              ELSE CHOOSE g \in Registered(registry, session_id) : TRUE]

\* get_registered_guest_session at time t: what it returns and the registry
\* it leaves
GetRegisteredGuestSession(registry, session_id, t) ==
    LET found == Registered(registry, session_id)
    IN  IF found = {}
        THEN [registry |-> registry, meta |-> NoMeta]
        ELSE LET meta == CHOOSE g \in found : TRUE
             IN  IF t > meta.expires_at
                 THEN [registry |-> Pop(registry, session_id), meta |-> NoMeta]
                 ELSE [registry |-> registry, meta |-> meta]

\* _drop_guest_schema: DROP SCHEMA IF EXISTS ... CASCADE / DROP TABLE IF EXISTS
DropGuestSchema(schemas, session_id) == schemas \ {session_id}

\* the claims of a token made by create_access_token at time t
AccessToken(guest, session_id, user_id, t, hours) ==
    [kind |-> "jwt", guest |-> guest, session_id |-> session_id, user_id |-> user_id,
     exp |-> Seconds(t + Hours(hours))]

\* create_guest_session: schema, registration and token
CreateGuestSession ==
    LET session_id == nextSession
        expires_at == now + Hours(GUEST_EXPIRATION_HOURS)
    IN  /\ nextSession <= MaxSessions
        /\ nextSession' = nextSession + 1
        /\ guest_schemas' = guest_schemas \cup {session_id}
        /\ guest_sessions' = RegisterGuestSession(guest_sessions, session_id, now, expires_at)
        /\ resp' = Response("create_guest_session", 200, <<>>,
                            [session_id |-> session_id,
                             schema_name |-> GetGuestSchemaName(session_id),
                             created_at |-> now, expires_at |-> expires_at,
                             access_token |-> AccessToken(TRUE, session_id, NullInt, now,
                                                          GUEST_EXPIRATION_HOURS)])
        /\ UNCHANGED <<users, now>>
        /\ UNCHANGED storeVars

\* a call of get_registered_guest_session
LookupGuestSession(session_id) ==
    LET r == GetRegisteredGuestSession(guest_sessions, session_id, now)
    IN  /\ guest_sessions' = r.registry
        /\ resp' = Response("get_registered_guest_session", 0, session_id, r.meta)
        /\ UNCHANGED <<guest_schemas, users, nextSession, now>>
        /\ UNCHANGED storeVars

\* drop_guest_session (explicit logout)
DropGuestSession(session_id) ==
    /\ guest_schemas' = DropGuestSchema(guest_schemas, session_id)
    /\ guest_sessions' = Pop(guest_sessions, session_id)
    /\ resp' = Response("drop_guest_session", 0, session_id, <<>>)
    /\ UNCHANGED <<users, nextSession, now>>
    /\ UNCHANGED storeVars

\* the sessions cleanup_expired_guest_schemas selects
ExpiredSessions(registry, t) == {g.session_id : g \in {h \in registry : h.expires_at < t}}

\* cleanup_expired_guest_schemas
CleanupExpiredGuestSchemas ==
    LET expired == ExpiredSessions(guest_sessions, now)
    IN  /\ guest_schemas' = guest_schemas \ expired
        /\ guest_sessions' = {g \in guest_sessions : g.session_id \notin expired}
        /\ resp' = Response("cleanup_expired_guest_schemas", 0, <<>>, Cardinality(expired))
        /\ UNCHANGED <<users, nextSession, now>>
        /\ UNCHANGED storeVars

\* ---------------------------------------------------------------- tokens
\* no Authorization header
NoToken == [kind |-> "none"]

\* a string jwt.decode rejects: not a JWT, or signed with another key
BadToken == [kind |-> "bad"]

\* None
NoTokenData == [decoded |-> FALSE]

\* decode_token at time t
DecodeToken(token, t) ==
    IF token.kind # "jwt" \/ token.exp < Seconds(t)
    THEN \* JWTError
         NoTokenData
    ELSE IF token.guest
    THEN IF token.session_id = NullInt THEN NoTokenData
         ELSE [decoded |-> TRUE, guest |-> TRUE, session_id |-> token.session_id,
               user_id |-> NullInt]
    ELSE IF token.user_id = NullInt THEN NoTokenData
    ELSE [decoded |-> TRUE, guest |-> FALSE, session_id |-> NullInt,
          user_id |-> token.user_id]

\* a row of the users table, known by its primary key
User(id) == [type |-> "User", id |-> id]

\* db.query(User).filter(User.id == user_id).first()
UserById(table, user_id) == {u \in table : u = user_id}

\* create_user: a row of the users table with the next id
CreateUser ==
    /\ Cardinality(users) < MaxUsers
    /\ users' = users \cup {Cardinality(users) + 1}
    /\ resp' = Response("create_user", 200, <<>>, Cardinality(users) + 1)
    /\ UNCHANGED <<guest_sessions, guest_schemas, nextSession, now>>
    /\ UNCHANGED storeVars

\* GuestSession(session_id=..., schema_name=meta[...], ...)
GuestSession(meta) == [type |-> "GuestSession", guest |-> meta]

\* get_current_guest
GetCurrentGuest(token) ==
    LET token_data == DecodeToken(token, now)
        r == GetRegisteredGuestSession(guest_sessions, token_data.session_id, now)
    IN  /\ UNCHANGED <<guest_schemas, users, nextSession, now>>
        /\ UNCHANGED storeVars
        /\ IF token = NoToken \/ ~token_data.decoded \/ ~token_data.guest
           THEN /\ resp' = Response("get_current_guest", 401, token, <<>>)
                /\ UNCHANGED guest_sessions
           ELSE /\ guest_sessions' = r.registry
                /\ resp' = IF r.meta = NoMeta
                           THEN Response("get_current_guest", 401, token, <<>>)
                           ELSE Response("get_current_guest", 200, token,
                                         GuestSession(r.meta))

\* a user path that does not look the user up
AnyUserById(table, user_id) == {user_id}

\* the user path of get_current_user_or_guest
CurrentUser(table, user_id) == UserById(table, user_id)

\* get_current_user_or_guest
GetCurrentUserOrGuest(token) ==
    LET token_data == DecodeToken(token, now)
        is_guest == token_data.guest /\ token_data.session_id # NullInt
        r == GetRegisteredGuestSession(guest_sessions, token_data.session_id, now)
        user == CurrentUser(users, token_data.user_id)
    IN  /\ UNCHANGED <<guest_schemas, users, nextSession, now>>
        /\ UNCHANGED storeVars
        /\ IF token = NoToken \/ ~token_data.decoded
           THEN /\ resp' = Response("get_current_user_or_guest", 401, token, <<>>)
                /\ UNCHANGED guest_sessions
           ELSE /\ guest_sessions' = IF is_guest THEN r.registry ELSE guest_sessions
                /\ resp' = IF is_guest /\ r.meta # NoMeta
                           THEN Response("get_current_user_or_guest", 200, token,
                                         GuestSession(r.meta))
                           ELSE IF user = {}
                           THEN Response("get_current_user_or_guest", 401, token, <<>>)
                           ELSE Response("get_current_user_or_guest", 200, token,
                                         User(CHOOSE u \in user : TRUE))

\* ============================================================= requests
\* sequences over S of length at most n
SeqsUpTo(S, n) == UNION {[1..k -> S] : k \in 0..n}

TitleAB == <<"A", " ", "B">>
TitleLowerAB == <<"a", " ", "b">>
TitleC == <<"C">>

UriB == <<"film/b">>
UriC == <<"film/c">>
UriZ == <<"film/z">>

\* the URI add_movie generates for "A B" (1999) and for "a b" (1999)
UriGenAB == GeneratedUri(TitleAB, 1999)

Date1 == Str("2024-01-15")

\* bodies of POST /api/movies
AddMovieBodies ==
    [title : {TitleAB, TitleLowerAB, <<>>},
     year : {1999, 1887},
     letterboxd_uri : {Null, UriGenAB},
     notes : {Null},
     is_favorite : {FALSE},
     seen_before : {FALSE}]

\* rows of an uploaded watchlist CSV, before validation
RowB == [name |-> TitleAB, year |-> 1999, letterboxd_uri |-> UriB, date |-> Null]
RowGen == [name |-> TitleLowerAB, year |-> 1999, letterboxd_uri |-> UriGenAB, date |-> Date1]
RowC == [name |-> TitleC, year |-> 1999, letterboxd_uri |-> UriC, date |-> Null]
RowBadYear == [name |-> TitleC, year |-> 1800, letterboxd_uri |-> UriC, date |-> Null]

\* uploads: a file that cannot be decoded, or rows
CsvFiles(rows) ==
    {[readable |-> FALSE, rows |-> <<>>]}
    \cup {[readable |-> TRUE, rows |-> q] : q \in SeqsUpTo(rows, MaxCsvLen)}

\* the selections JSON of process_csv_with_selections_stream
Selections(uris) ==
    [movies_to_add : SeqsUpTo([letterboxd_uri : uris, is_favorite : {TRUE},
                                seen_before : {FALSE}], MaxSelLen),
     movies_to_remove_ids : {S \in SUBSET (1..MaxId) : Cardinality(S) <= MaxRemove}]

\* entries of the "movies" array of an uploaded profile
EntryB ==
    [is_object |-> TRUE, title |-> TitleAB, year |-> 1999, letterboxd_uri |-> UriB,
     director |-> Str("D"), country |-> Str("K"), runtime |-> 100, genres |-> <<"g">>,
     tmdb_id |-> 7, tmdb_data |-> Str("blob"), is_favorite |-> TRUE,
     seen_before |-> FALSE, notes |-> Str("n")]

\* a second entry with the URI of EntryB
EntryBAgain == [EntryB EXCEPT !.title = TitleC, !.is_favorite = FALSE, !.notes = Null]

\* a minimal entry, as exported without TMDB data
EntryC ==
    [is_object |-> TRUE, title |-> TitleC, year |-> 1999, letterboxd_uri |-> UriC,
     director |-> Null, country |-> Null, runtime |-> NullInt, genres |-> Missing,
     tmdb_id |-> NullInt, tmdb_data |-> Null, is_favorite |-> FALSE,
     seen_before |-> TRUE, notes |-> Null]

EntryNoUri == [EntryC EXCEPT !.letterboxd_uri = Null]

EntryNotObject == [EntryC EXCEPT !.is_object = FALSE]

NameN == <<"N">>
NameNSpace == <<"N", " ">>
NameBlank == <<" ">>

\* uploads that fail validation: not an object, without "movies", "movies"
\* not a list
InvalidProfiles ==
    {[is_object |-> FALSE, has_movies |-> FALSE, movies_is_list |-> FALSE,
      movies |-> <<>>, favorite_directors |-> <<>>, seen_countries |-> <<>>],
     [is_object |-> TRUE, has_movies |-> FALSE, movies_is_list |-> FALSE,
      movies |-> <<>>, favorite_directors |-> <<>>, seen_countries |-> <<>>],
     [is_object |-> TRUE, has_movies |-> TRUE, movies_is_list |-> FALSE,
      movies |-> <<>>, favorite_directors |-> <<>>, seen_countries |-> <<>>]}

\* well-formed uploads
Profiles(entries, dnames, cnames) ==
    [is_object : {TRUE}, has_movies : {TRUE}, movies_is_list : {TRUE},
     movies : SeqsUpTo(entries, MaxProfileLen),
     favorite_directors : SeqsUpTo(dnames, MaxNames),
     seen_countries : SeqsUpTo(cnames, MaxNames)]

\* tmdb_client is None when no API key is configured
Unconfigured == [configured |-> FALSE, answer |-> NoTmdb]
Configured == [configured |-> TRUE, answer |-> TmdbHit]

\* ======================================================== specifications
Init ==
    /\ movies = {}
    /\ directors = {}
    /\ countries = {}
    /\ nextId = 1
    /\ background = <<>>
    /\ exported = [taken |-> FALSE]
    /\ resp = Idle
    /\ guest_sessions = {}
    /\ guest_schemas = {}
    /\ users = {}
    /\ nextSession = 1
    /\ now = 0
    /\ inflight = NoRequests

\* the operations that insert and delete movies, and the tracked-list passes
Serve ==
    \/ \E body \in AddMovieBodies, tmdb \in TmdbAnswers : AddMovie(body, tmdb)
    \/ \E csv \in CsvFiles({RowB, RowGen}), tmdb \in TmdbAnswers :
           ProcessCsvStream(csv, tmdb)
    \/ \E csv \in CsvFiles({RowB}), sel \in Selections({UriB}) :
           ProcessCsvWithSelections(csv, sel, NoTmdb)
    \/ \E p \in InvalidProfiles \cup Profiles({EntryB, EntryC}, {}, {}),
          client \in {Unconfigured, Configured} : ImportProfile(p, "upload", client)
    \/ \E id \in 1..MaxId : DeleteMovie(id)
    \/ ClearCache
    \/ ProcessTrackedLists

Next ==
    \/ Ready /\ Serve /\ UNCHANGED authVars
    \/ Complete
    \/ RunBackground

Spec == Init /\ [][Next]_vars

\* uploading, previewing and applying a watchlist CSV
ServeCsv ==
    \/ \E csv \in CsvFiles({RowB, RowGen, RowBadYear}), tmdb \in TmdbAnswers :
           ProcessCsvStream(csv, tmdb)
    \/ \E csv \in CsvFiles({RowB, RowGen, RowC, RowBadYear}) : PreviewCsv(csv)
    \/ \E csv \in CsvFiles({RowB, RowC}), sel \in Selections({UriB, UriZ}),
          tmdb \in TmdbAnswers :
           ProcessCsvWithSelections(csv, sel, tmdb)
    \/ \E id \in 1..MaxId : DeleteMovie(id)

NextCsv ==
    \/ Ready /\ ServeCsv /\ UNCHANGED authVars
    \/ Complete

SpecCsv == Init /\ [][NextCsv]_vars

\* uploading profiles
ServeProfile ==
    \/ \E p \in InvalidProfiles
                \cup Profiles({EntryB, EntryBAgain, EntryC, EntryNoUri, EntryNotObject},
                              {}, {})
                \cup Profiles({EntryB}, {NameN, NameNSpace, NameBlank}, {NameN}) :
           ImportProfile(p, "upload", Unconfigured)
    \/ \E p \in Profiles({EntryB, EntryC, EntryNoUri}, {NameN}, {}) :
           ImportProfile(p, "upload", Configured)

NextProfile ==
    \/ Ready /\ ServeProfile /\ UNCHANGED authVars
    \/ Complete
    \/ RunBackground

SpecProfile == Init /\ [][NextProfile]_vars

\* a profile taken with export_profile is uploaded again
ImportExported(client) ==
    /\ exported.taken
    /\ ImportProfile(exported.json_data, "exported", client)

\* a store is built, exported and imported
ServeRoundTrip ==
    \/ \E tmdb \in TmdbAnswers :
           AddMovie([title |-> TitleAB, year |-> 1999, letterboxd_uri |-> UriB,
                     notes |-> Null, is_favorite |-> TRUE, seen_before |-> FALSE], tmdb)
    \/ \E id \in 1..MaxId, notes \in {<<>>, Str("n")} : SetMovieNotes(id, notes)
    \/ \E name \in {NameN, NameNSpace} : AddFavoriteDirector(name)
    \/ \E name \in {NameN, NameNSpace} : RemoveFavoriteDirector(name)
    \/ \E name \in {NameN} : AddSeenCountry(name)
    \/ \E name \in {NameN} : RemoveSeenCountry(name)
    \/ \E include_tmdb_data \in BOOLEAN : ExportProfile(include_tmdb_data)
    \/ ImportExported(Unconfigured)

NextRoundTrip ==
    \/ Ready /\ ServeRoundTrip /\ UNCHANGED authVars
    \/ Complete
    \/ RunBackground

SpecRoundTrip == Init /\ [][NextRoundTrip]_vars

\* the tokens a client may present as a guest: none, an undecodable one, or
\* one made by create_guest_session at some time of the first period
GuestTokens ==
    {NoToken, BadToken}
    \cup {AccessToken(TRUE, session_id, NullInt, t, GUEST_EXPIRATION_HOURS) :
             session_id \in 1..MaxSessions, t \in 0..MaxDrift}

\* guest sessions are created, looked up, dropped and cleaned up while time
\* passes
ServeGuest ==
    \/ CreateGuestSession
    \/ \E session_id \in 1..MaxSessions : LookupGuestSession(session_id)
    \/ \E token \in GuestTokens : GetCurrentGuest(token)
    \/ \E session_id \in 1..MaxSessions : DropGuestSession(session_id)
    \/ CleanupExpiredGuestSchemas

NextGuest ==
    \/ Ready /\ ServeGuest
    \/ Complete
    \/ \E d \in {1, Hours(GUEST_EXPIRATION_HOURS)} : Tick(d)

SpecGuest == Init /\ [][NextGuest]_vars

\* the tokens a client may present: none, an undecodable one, or any claims
\* signed with the server's key at some time of the first period
Tokens ==
    {NoToken, BadToken}
    \cup {AccessToken(guest, session_id, user_id, t, JWT_EXPIRATION_HOURS) :
             guest \in BOOLEAN,
             session_id \in {NullInt} \cup 1..MaxSessions,
             user_id \in {NullInt} \cup 1..(MaxUsers + 1),
             t \in 0..MaxDrift}

\* users and guests authenticate while guest sessions come and go
ServeAuth ==
    \/ CreateGuestSession
    \/ CreateUser
    \/ \E token \in Tokens : GetCurrentUserOrGuest(token)
    \/ \E session_id \in 1..MaxSessions : DropGuestSession(session_id)
    \/ CleanupExpiredGuestSchemas

NextAuth ==
    \/ Ready /\ ServeAuth
    \/ Complete
    \/ \E d \in {1, Hours(GUEST_EXPIRATION_HOURS)} : Tick(d)

SpecAuth == Init /\ [][NextAuth]_vars

\* the tracked-list passes over a directory whose files change between runs
TitleTheC == <<"T", "h", "e", " ", "C">>
UrlB == <<"https://letterboxd.com/", "film/b">>

ListBodies ==
    [title : {TitleC, TitleTheC},
     year : {1999},
     letterboxd_uri : {Null, UriB, UrlB},
     notes : {Null},
     is_favorite : {FALSE},
     seen_before : {FALSE}]

\* states of the tracked-lists directory: the list as shipped, the list after
\* its first row was dropped, a second list beside an emptied first one, and
\* no file at all
Directories ==
    {TrackedListFiles,
     << [column |-> "is_top", movies |-> Tail(TrackedListFiles[1].movies)] >>,
     << [column |-> "is_best",
         movies |-> << [name |-> TitleC, year |-> 1999, letterboxd_uri |-> UriB] >>],
        [column |-> "is_top", movies |-> <<>>] >>,
     <<>>}

ServeLists ==
    \/ \E body \in ListBodies : AddMovie(body, NoTmdb)
    \/ \E id \in 1..MaxId : DeleteMovie(id)
    \/ \E files \in Directories : ProcessTrackedListsIn(files)

NextLists ==
    \/ Ready /\ ServeLists /\ UNCHANGED authVars
    \/ Complete

SpecLists == Init /\ [][NextLists]_vars

\* match_movie_by_uri as a function of the table and the URI looked up
BoxdB == <<"https://boxd.it/", "film/b">>
UrlRoot == <<"https://letterboxd.com/">>

\* a stored movie with a URI
UriMovie(id, uri) ==
    NewMovie(id, TitleC, 1999, uri, NoTmdb, Str("now"), FALSE, FALSE, Null)

StoredUris == {UriB, UrlB, BoxdB, UriC}

\* tables of at most MaxId rows, and a table of one row more than the
\* fallback query reads, its last row stored as a full URL
UriStores ==
    {{}}
    \cup {{UriMovie(1, u)} : u \in StoredUris}
    \cup {{UriMovie(1, p[1]), UriMovie(2, p[2])} :
              p \in {q \in StoredUris \X StoredUris : q[1] # q[2]}}
    \cup {{UriMovie(i, <<"film/", ToString(i)>>) : i \in 1..CANDIDATE_LIMIT}
              \cup {UriMovie(CANDIDATE_LIMIT + 1, UrlB)}}

InitUri ==
    /\ movies \in UriStores
    /\ directors = {}
    /\ countries = {}
    /\ nextId = Cardinality(movies) + 1
    /\ background = <<>>
    /\ exported = [taken |-> FALSE]
    /\ resp = Idle
    /\ guest_sessions = {}
    /\ guest_schemas = {}
    /\ users = {}
    /\ nextSession = 1
    /\ now = 0
    /\ inflight = NoRequests

\* one call of match_movie_by_uri(db, uri)
MatchUri(uri) ==
    /\ \E cut \in Cuts(movies) :
           resp' = Response("match_movie_by_uri", 200, uri,
                            MatchMovieByUriCut(movies, uri, cut))
    /\ UNCHANGED storeVars

NextUri ==
    \/ Ready /\ (\E uri \in StoredUris \cup {Null, UrlRoot, UriZ} : MatchUri(uri))
             /\ UNCHANGED authVars
    \/ Complete

SpecUri == InitUri /\ [][NextUri]_vars

\* get_movies as a function of the table, the directory and list_filters
FlagSets == SUBSET {"is_top", "is_best"}

FlaggedMovie(id, lists) == [UriMovie(id, <<"film/", ToString(id)>>) EXCEPT !.lists = lists]

RECURSIVE FilterStoresOf(_)
FilterStoresOf(n) ==
    IF n = 0 THEN {{}}
    ELSE {db \cup {FlaggedMovie(n, lists)} : db \in FilterStoresOf(n - 1), lists \in FlagSets}

FilterStores == UNION {FilterStoresOf(n) : n \in 0..MaxId}

FilterEntries ==
    {[name |-> "is_top", value |-> "true"], [name |-> "is_top", value |-> "false"],
     [name |-> "is_top", value |-> "null"], [name |-> "is_best", value |-> "true"],
     [name |-> "bogus", value |-> "true"]}

\* sets of entries with distinct names, as the keys of a JSON object are
Objects(n) ==
    {S \in SUBSET FilterEntries :
         Cardinality(S) <= n /\ \A e, f \in S : e.name = f.name => e = f}

Named(name) == [name |-> name, value |-> "true"]

FilterGroups ==
    {[format |-> "array", members |-> <<>>],
     [format |-> "array", members |-> <<Named("is_top")>>],
     [format |-> "array", members |-> <<Named("is_top"), Named("is_best")>>],
     [format |-> "array", members |-> <<Named("bogus")>>],
     [format |-> "array", members |-> <<Named("bogus"), Named("is_best")>>],
     [format |-> "object", members |-> <<[name |-> "is_top", value |-> "false"],
                                         Named("is_best")>>]}

ListFilters ==
    [flat : Objects(MaxFlat), and_filters : {{}}, or_groups : {<<>>}]
    \cup [flat : {{}}, and_filters : Objects(MaxAnd),
          or_groups : SeqsUpTo(FilterGroups, MaxGroups)]

InitFilter ==
    /\ movies \in FilterStores
    /\ directors = {}
    /\ countries = {}
    /\ nextId = Cardinality(movies) + 1
    /\ background = <<>>
    /\ exported = [taken |-> FALSE]
    /\ resp = Idle
    /\ guest_sessions = {}
    /\ guest_schemas = {}
    /\ users = {}
    /\ nextSession = 1
    /\ now = 0
    /\ inflight = NoRequests

NextFilter ==
    \/ Ready /\ (\E doc \in ListFilters, columns \in {{"is_top", "is_best"}, {"is_top"}} :
                     GetMovies(doc, columns))
             /\ UNCHANGED authVars
    \/ Complete

SpecFilter == InitFilter /\ [][NextFilter]_vars

\* the field setters and delete_movie on a small table
EditBodies ==
    [title : {TitleC, TitleAB},
     year : {1999},
     letterboxd_uri : {Null},
     notes : {Null, Str("n")},
     is_favorite : BOOLEAN,
     seen_before : {FALSE}]

ServeEdit ==
    \/ \E body \in EditBodies : AddMovie(body, NoTmdb)
    \/ \E id \in 1..MaxId, is_favorite \in BOOLEAN : SetMovieFavorite(id, is_favorite)
    \/ \E id \in 1..MaxId, notes \in {<<>>, Str("n"), Str("o")} : SetMovieNotes(id, notes)
    \/ \E id \in 1..MaxId, seen_before \in BOOLEAN : SetMovieSeenBefore(id, seen_before)
    \/ \E id \in 1..MaxId : DeleteMovie(id)

NextEdit ==
    \/ Ready /\ ServeEdit /\ UNCHANGED authVars
    \/ Complete

SpecEdit == Init /\ [][NextEdit]_vars

\* add_movie calls served side by side
RaceBodies ==
    [title : {TitleC, TitleAB},
     year : {1999},
     letterboxd_uri : {Null, UriB, UriC},
     notes : {Null},
     is_favorite : {FALSE},
     seen_before : {FALSE}]

NextRace ==
    \/ \E i \in 1..MaxThreads, body \in RaceBodies :
           AddMovieCheck(i, body)
           /\ UNCHANGED <<guest_sessions, guest_schemas, users, nextSession, now>>
    \/ \E i \in 1..MaxThreads :
           AddMovieInsert(i, NoTmdb)
           /\ UNCHANGED <<guest_sessions, guest_schemas, users, nextSession, now>>
    \/ \E i \in 1..MaxThreads :
           AddMovieReturn(i)
           /\ UNCHANGED <<guest_sessions, guest_schemas, users, nextSession, now>>

SpecRace == Init /\ [][NextRace]_vars

\* ================================================================ claims
\* C1: after any sequence of add_movie, process_csv_stream,
\* process_csv_with_selections_stream, import_profile, delete_movie and
\* clear_cache operations, no two stored movies have the same letterboxd_uri.
C1_UniqueUris ==
    \A m, n \in movies : m # n => m.letterboxd_uri # n.letterboxd_uri

\* two movies are stored and the request served last was refused as a duplicate
C1_Witness ==
    /\ Cardinality(movies) >= 2
    /\ resp.op = "add_movie"
    /\ resp.status \in {409, 500}

\* a stored movie with the URI the body supplies or add_movie generates for
\* it, or with its title and year
Duplicates(db, body) ==
    \E m \in db : \/ m.letterboxd_uri = AddMovieUri(body)
                  \/ (m.title = AddMovieTitle(body) /\ m.year = body.year)

\* C2: add_movie with a valid title and year for a movie that duplicates a
\* stored one (same letterboxd_uri, also when the URI is generated, or same
\* title and year) answers 409 and leaves the stored movies unchanged.
C2_DuplicateRejected ==
    [][(/\ resp'.op = "add_movie"
        /\ AddMovieTitle(resp'.req) # <<>>
        /\ ValidYear(resp'.req.year)
        /\ Duplicates(movies, resp'.req))
       => (resp'.status = 409 /\ movies' = movies)]_vars

Ids(db) == {m.id : m \in db}

\* name, year and URI of the parsed rows of an upload
CsvEntries(csv) ==
    LET rows == ParseWatchlistCsv(csv.rows)
    IN  [i \in DOMAIN rows |-> [name |-> rows[i].name, year |-> rows[i].year,
                                letterboxd_uri |-> rows[i].letterboxd_uri]]

CsvUris(csv) == {CsvEntries(csv)[i].letterboxd_uri : i \in DOMAIN CsvEntries(csv)}

\* C3: preview_csv makes no change to the database, and its result partitions
\* by URI: movies_to_add is exactly the CSV entries whose letterboxd_uri is
\* not stored, movies_to_remove exactly the stored movies whose letterboxd_uri
\* is not in the CSV.
C3_PreviewPartitions ==
    [][resp'.op = "preview_csv" =>
         /\ UNCHANGED <<movies, directors, countries, nextId, background>>
         /\ resp'.status = 200 =>
              LET NotStored(e) == e.letterboxd_uri \notin Uris(movies)
              IN  /\ resp'.out.movies_to_add = SelectSeq(CsvEntries(resp'.req), NotStored)
                  /\ {r.id : r \in resp'.out.movies_to_remove}
                       = {m.id : m \in {n \in movies :
                                          n.letterboxd_uri \notin CsvUris(resp'.req)}}
                  /\ \A r \in resp'.out.movies_to_remove :
                        \E m \in movies : /\ m.id = r.id
                                          /\ m.title = r.title
                                          /\ m.year = r.year
                                          /\ m.letterboxd_uri = r.letterboxd_uri]_vars

\* a preview with something to add, something to remove and a CSV entry that
\* is already stored
C3_Witness ==
    /\ resp.op = "preview_csv"
    /\ resp.status = 200
    /\ resp.out.movies_to_add # <<>>
    /\ resp.out.movies_to_remove # {}
    /\ Len(resp.out.movies_to_add) < Len(CsvEntries(resp.req))

\* C4: in process_csv_stream every parsed CSV row is counted exactly once, as
\* processed (inserted) or skipped (already stored): the k-th progress event
\* after the initial one has current = k = processed + skipped, current never
\* decreases, and on success the final event has current = total = processed
\* + skipped.
C4_RowsCountedOnce ==
    [][resp'.op = "process_csv_stream" =>
         LET ev == resp'.out
             fin == ev[Len(ev)]
             total == Len(CsvEntries(resp'.req))
         IN  /\ \A k \in 1..(Len(ev) - 1) :
                   ~ev[k + 1].done =>
                       /\ ev[k + 1].current = k
                       /\ ev[k + 1].processed + ev[k + 1].skipped = k
             /\ \A i, j \in DOMAIN ev :
                   (i <= j /\ ~ev[i].error /\ ~ev[j].error)
                       => ev[i].current <= ev[j].current
             /\ (fin.done /\ ~fin.error) =>
                   /\ Len(ev) = total + 2
                   /\ fin.current = total
                   /\ fin.total = total
                   /\ fin.processed + fin.skipped = total
                   /\ fin.processed = Cardinality(Ids(movies') \ Ids(movies))
                   /\ Ids(movies) \subseteq Ids(movies')]_vars

\* an upload of which one row was inserted and another skipped
C4_Witness ==
    /\ resp.op = "process_csv_stream"
    /\ resp.out[Len(resp.out)].done
    /\ ~resp.out[Len(resp.out)].error
    /\ resp.out[Len(resp.out)].processed >= 1
    /\ resp.out[Len(resp.out)].skipped >= 1

\* C5: process_csv_with_selections_stream inserts only movies whose
\* letterboxd_uri is both in the uploaded CSV and in selections.movies_to_add,
\* deletes only movies whose id is in selections.movies_to_remove_ids, and
\* inserts or deletes no other movie.
C5_OnlySelected ==
    [][resp'.op = "process_csv_with_selections_stream" =>
         LET csv == resp'.req.csv
             sel == resp'.req.selections
             csv_uris == IF csv.readable THEN CsvUris(csv) ELSE {}
             sel_uris == {sel.movies_to_add[i].letterboxd_uri :
                             i \in DOMAIN sel.movies_to_add}
         IN  /\ \A m \in movies' :
                   m.id \notin Ids(movies)
                       => m.letterboxd_uri \in csv_uris \cap sel_uris
             /\ \A m \in movies :
                   m.id \notin Ids(movies') => m.id \in sel.movies_to_remove_ids]_vars

\* a request that removed a stored movie and inserted a selected one
C5_Witness ==
    /\ resp.op = "process_csv_with_selections_stream"
    /\ resp.out[Len(resp.out)].done
    /\ ~resp.out[Len(resp.out)].error
    /\ resp.out[Len(resp.out)].processed >= 1
    /\ resp.out[Len(resp.out)].removed >= 1

\* the fields of a stored movie that a profile carries
MovieFields(m) ==
    [title |-> m.title, year |-> m.year, letterboxd_uri |-> m.letterboxd_uri,
     director |-> m.director, country |-> m.country, runtime |-> m.runtime,
     genres |-> m.genres, tmdb_id |-> m.tmdb_id, is_favorite |-> m.is_favorite,
     seen_before |-> m.seen_before, notes |-> m.notes]

\* the same fields of a profile entry, an absent "genres" being the empty list
EntryFields(e) == MovieFields([e EXCEPT !.genres = IF @ = Missing THEN <<>> ELSE @])

\* the names of a profile's list that are strings with something in them
ValidNames(names) ==
    {Strip(names[i]) : i \in {j \in DOMAIN names : Strip(names[j]) # <<>>}}

C7_LenientImport ==
    (resp.op = "import_profile" /\ ValidProfile(resp.req.json_data)) =>
        LET es == resp.req.json_data.movies
            after == resp.out.after_import
            \* an object with a URI that no earlier entry has taken
            Importable(i) ==
                /\ ValidEntry(es[i])
                /\ \A j \in 1..(i - 1) :
                      ~(ValidEntry(es[j])
                        /\ es[j].letterboxd_uri = es[i].letterboxd_uri)
        IN  /\ resp.out.outcome # "movies_commit_failed"
            /\ \A i \in DOMAIN es :
                  Importable(i) =>
                      \E m \in after.movies : MovieFields(m) = EntryFields(es[i])
            /\ resp.out.movies_failed
                 = Cardinality({i \in DOMAIN es : ~Importable(i)})

\* C8: a profile import whose data is not a JSON object, lacks the "movies"
\* key, or whose "movies" is not a list fails with an error and leaves the
\* stored movies, favorite directors and seen countries unchanged.
C8_InvalidProfileRejected ==
    [][(/\ resp'.op = "import_profile"
        /\ \/ ~resp'.req.json_data.is_object
           \/ ~resp'.req.json_data.has_movies
           \/ ~resp'.req.json_data.movies_is_list)
       => /\ resp'.out.outcome = "invalid"
          /\ movies' = movies
          /\ directors' = directors
          /\ countries' = countries]_vars

\* an invalid profile was refused by a store that holds movies, directors and
\* countries
C8_Witness ==
    /\ resp.op = "import_profile"
    /\ resp.out.outcome = "invalid"
    /\ movies # {}
    /\ directors # {}
    /\ countries # {}

\* the fields as a client reads them: notes that are NULL read as ""
FieldsRead(m) == [MovieFields(m) EXCEPT !.notes = IF Falsy(@) THEN <<>> ELSE @]

\* C9: export followed by import is a round trip: importing what
\* export_profile_to_json gave with include_tmdb_data = true, into any store,
\* yields the same movies by title, year, letterboxd_uri, director, country,
\* runtime, genres, tmdb_id, is_favorite, seen_before and notes, and the same
\* favorite directors and seen countries as the exported store.
C9_RoundTrip ==
    [][(/\ resp'.op = "import_profile"
        /\ resp'.req.source = "exported"
        /\ exported.include_tmdb_data)
       => LET after == resp'.out.after_import
          IN  /\ {FieldsRead(m) : m \in after.movies}
                   = {FieldsRead(m) : m \in exported.movies}
              /\ after.directors = exported.directors
              /\ after.countries = exported.countries]_vars

\* C10 as the specification has it: no operation schedules database work
\* that runs after its response has completed.
C10_NoBackgroundWork ==
    \A i \in DOMAIN background : background[i] # TrackedListsTask

\* the responses that came with a tracked-lists pass of their own
RanTrackedLists(r) ==
    \/ r.op = "process_tracked_lists"
    \/ r.op = "process_csv_stream" /\ ~r.out[Len(r.out)].error
    \/ /\ r.op = "process_csv_with_selections_stream"
       /\ ~r.out[Len(r.out)].error
       /\ r.req.selections.movies_to_add # <<>>
    \/ r.op = "import_profile" /\ r.out.tmdb_branch

\* C10, amended: only import_profile schedules database work after its
\* response, and only when the import completed and no TMDB processing was
\* needed: it then always leaves the tracked-lists pass to a background task.
\* Every other request that updates the tracked lists has done so when its
\* response ends, and schedules nothing.
C10_OnlyImportDefers ==
    [][/\ (Len(background') > Len(background)
              \/ (resp'.op = "import_profile" /\ resp'.out.outcome = "complete"
                  /\ ~resp'.out.tmdb_branch))
          => /\ resp'.op = "import_profile"
             /\ resp'.out.outcome = "complete"
             /\ ~resp'.out.tmdb_branch
             /\ background' = Append(background, TrackedListsTask)
       /\ RanTrackedLists(resp')
          => /\ movies' = ProcessAllTrackedLists(movies')
             /\ background' = background]_vars

\* an import has answered done while the tracked-lists pass that would mark
\* its movies is still waiting to run
C10_Witness ==
    /\ resp.op = "import_profile"
    /\ resp.out.scheduled
    /\ background = <<TrackedListsTask>>
    /\ movies # ProcessAllTrackedLists(movies)

\* the events a streaming response carried
StreamOf(r) == IF r.op = "import_profile" THEN r.out.stream ELSE r.out

StreamingOps ==
    {"process_csv_stream", "process_csv_with_selections_stream", "import_profile"}

\* the stream ends with its only done event
DoneIsLast(ev) ==
    /\ ev # <<>>
    /\ ev[Len(ev)].done
    /\ \A k \in 1..(Len(ev) - 1) : ~ev[k].done

CreatedSessions == 1..(nextSession - 1)

\* C12: get_registered_guest_session returns metadata only for a session that
\* was registered, not dropped, and whose expires_at has not passed; once a
\* lookup has returned None for a created session (it expired, or was
\* dropped), the session is out of the registry and stays out, so every
\* later lookup returns None as well.
C12_LookupOnlyLive ==
    [][/\ resp'.op = "get_registered_guest_session" =>
             IF resp'.out # NoMeta
             THEN /\ resp'.out.session_id = resp'.req
                  /\ resp'.out \in guest_sessions
                  /\ resp'.req \in CreatedSessions
                  /\ resp'.req \in guest_schemas
                  /\ now <= resp'.out.expires_at
                  /\ guest_sessions' = guest_sessions
             ELSE Registered(guest_sessions', resp'.req) = {}
       /\ \A session_id \in CreatedSessions :
             Registered(guest_sessions, session_id) = {}
                 => Registered(guest_sessions', session_id) = {}
       /\ now' >= now]_vars

\* a lookup returned None for a session that had expired and whose schema is
\* still in the database
C12_Witness ==
    /\ resp.op = "get_registered_guest_session"
    /\ resp.out = NoMeta
    /\ resp.req \in guest_schemas
    /\ now > Hours(GUEST_EXPIRATION_HOURS)

\* C13: an invocation of cleanup_expired_guest_schemas leaves no schema or
\* tables of an expired guest session in the database.  A session whose
\* schema exists is either registered or has been taken out of the registry
\* by a lookup after its expires_at, so what may remain after the cleanup are
\* the schemas of registered sessions whose expires_at has not passed.
C13_CleanupRemovesExpired ==
    resp.op = "cleanup_expired_guest_schemas" =>
        \A session_id \in guest_schemas :
            \E g \in guest_sessions : g.session_id = session_id /\ now <= g.expires_at

\* C14: get_current_user_or_guest returns a GuestSession only for a guest
\* token whose session is registered and unexpired, returns a User only for
\* a token whose user_id names an existing user, and raises 401 in every
\* other case (no token, undecodable token, guest token of an expired or
\* dropped session, user token of a missing user).
C14_UserOrGuest ==
    [][resp'.op = "get_current_user_or_guest" =>
         LET token == resp'.req
             decodable == token.kind = "jwt" /\ Seconds(now) <= token.exp
             guest_token == decodable /\ token.guest /\ token.session_id # NullInt
             user_token == decodable /\ ~token.guest /\ token.user_id # NullInt
             live == {g \in guest_sessions : now <= g.expires_at}
         IN  /\ resp'.status \in {200, 401}
             /\ (resp'.status = 200 /\ resp'.out.type = "GuestSession")
                   <=> (guest_token /\ \E g \in live : g.session_id = token.session_id)
             /\ (resp'.status = 200 /\ resp'.out.type = "GuestSession")
                   => /\ resp'.out.guest \in live
                      /\ resp'.out.guest.session_id = token.session_id
             /\ (resp'.status = 200 /\ resp'.out.type = "User")
                   <=> (user_token /\ token.user_id \in users)
             /\ (resp'.status = 200 /\ resp'.out.type = "User")
                   => resp'.out.id = token.user_id]_vars

\* the token of a guest session that expired within the last second is still
\* decodable and is answered with 401
C14_Witness ==
    /\ resp.op = "get_current_user_or_guest"
    /\ resp.status = 401
    /\ resp.req.kind = "jwt"
    /\ resp.req.guest
    /\ Seconds(now) <= resp.req.exp
    /\ resp.req.session_id \in guest_schemas
    /\ users # {}

C16_MatchIffNormalizedEqual ==
    resp.op = "match_movie_by_uri" /\ NormalizeUri(resp.req) # <<>> =>
        /\ resp.out # NoMovie => ById(movies, resp.out) # {}
        /\ resp.out = NoMovie =>
               \A m \in WithUri(movies) :
                   NormalizeUri(m.letterboxd_uri) # NormalizeUri(resp.req)

\* the names that occur in the comparisons of a query
SqlNames(sql) == {c[1] : c \in sql.ands} \cup {c[1] : c \in UNION sql.ors}

\* the entry holds of the movie: its flag has the entry's value
Holds(m, e) == (e.name \in m.lists) <=> (e.value = "true")

Members(group) == {group.members[k] : k \in DOMAIN group.members}

\* C17 as stated: get_movies returns the movies on which every and_filters
\* entry (every entry of a flat object) holds and in every OR group some member
\* holds; entries that name no tracked-list column count for nothing and do
\* not occur in the SQL.
C17_EveryGroupSatisfied ==
    resp.op = "get_movies" =>
        LET doc == resp.req.list_filters
            columns == resp.req.columns
        IN  /\ SqlNames(resp.out.sql) \subseteq columns
            /\ resp.out.movies =
                   {m.id : m \in
                       {x \in movies :
                           /\ \A e \in Effective(AndFilters(doc), columns) : Holds(x, e)
                           /\ \A i \in DOMAIN doc.or_groups :
                                  \E e \in Effective(Members(doc.or_groups[i]), columns) :
                                      Holds(x, e)}}

\* C17, amended: as above, but an OR group none of whose members names a
\* tracked-list column with a value (the empty group included) restricts
\* nothing, and an entry whose value is null restricts nothing.
C17_EveryEffectiveGroupSatisfied ==
    resp.op = "get_movies" =>
        LET doc == resp.req.list_filters
            columns == resp.req.columns
        IN  /\ SqlNames(resp.out.sql) \subseteq columns
            /\ resp.out.movies =
                   {m.id : m \in
                       {x \in movies :
                           /\ \A e \in Effective(AndFilters(doc), columns) : Holds(x, e)
                           /\ \A i \in DOMAIN doc.or_groups :
                                  \/ Effective(Members(doc.or_groups[i]), columns) = {}
                                  \/ \E e \in Effective(Members(doc.or_groups[i]), columns) :
                                         Holds(x, e)}}

\* a query with a group of an unknown name and a group of known names has
\* returned one of two stored movies
C17_Witness ==
    /\ resp.op = "get_movies"
    /\ Cardinality(movies) = 2
    /\ Cardinality(resp.out.movies) = 1
    /\ Len(resp.req.list_filters.or_groups) = 2
    /\ \E i \in 1..2 :
           Effective(Members(resp.req.list_filters.or_groups[i]), resp.req.columns) = {}
    /\ \E i \in 1..2 :
           Effective(Members(resp.req.list_filters.or_groups[i]), resp.req.columns) # {}

Setters == {"set_movie_favorite", "set_movie_notes", "set_movie_seen_before"}

\* the movie with the field the setter names given the value the response
\* reports
FieldSet(m, r) ==
    CASE r.op = "set_movie_favorite" -> [m EXCEPT !.is_favorite = r.out]
      [] r.op = "set_movie_notes" -> [m EXCEPT !.notes = r.out]
      [] r.op = "set_movie_seen_before" -> [m EXCEPT !.seen_before = r.out]

\* what holds of the four operations whatever the setters do to the row:
\* the other movies stay, delete_movie removes the addressed movie only, and
\* an id that is not stored gives 404 and changes nothing
FrameOfOthers ==
    /\ resp'.status = 404 => movies' = movies /\ ById(movies, resp'.req) = {}
    /\ resp'.status = 200 /\ resp'.op = "delete_movie" =>
           movies' = movies \ ById(movies, resp'.req) /\ ById(movies, resp'.req) # {}
    /\ resp'.status = 200 /\ resp'.op \in Setters =>
           /\ {m \in movies' : m.id # resp'.req} = {m \in movies : m.id # resp'.req}
           /\ Cardinality(ById(movies', resp'.req)) = 1
           /\ Cardinality(ById(movies, resp'.req)) = 1

\* C18 as stated: a setter changes only the named field of the addressed
\* movie; every other field of that movie and every other movie stay;
\* delete_movie removes only the addressed movie; an unknown id gives 404 and
\* changes nothing.
C18_OnlyNamedField ==
    [][Ready /\ resp'.op \in Setters \cup {"delete_movie"} =>
           /\ FrameOfOthers
           /\ resp'.status = 200 /\ resp'.op \in Setters =>
                  \A m \in ById(movies, resp'.req) :
                      ById(movies', resp'.req) = {FieldSet(m, resp')}]_vars

\* C18, amended: a setter that changes the value of its field also stamps
\* updated_at on the addressed movie, and nothing else; a setter given the
\* value the field already has leaves the movie as it was.
C18_NamedFieldAndUpdatedAt ==
    [][Ready /\ resp'.op \in Setters \cup {"delete_movie"} =>
           /\ FrameOfOthers
           /\ resp'.status = 200 /\ resp'.op \in Setters =>
                  \A m \in ById(movies, resp'.req) :
                      ById(movies', resp'.req) =
                          {IF FieldSet(m, resp') = m THEN m
                           ELSE [FieldSet(m, resp') EXCEPT !.updated_at = Str("now")]}]_vars

\* a setter has changed the favorite flag of one of two stored movies
C18_Witness ==
    /\ resp.op = "set_movie_favorite"
    /\ resp.status = 200
    /\ Cardinality(movies) = 2
    /\ \E m \in ById(movies, resp.req) :
           m.is_favorite = resp.out /\ m.updated_at # Null /\ ~Falsy(m.notes)

\* C19: however two concurrent add_movie calls interleave, no two stored
\* movies have the same title and year, and a call that did not store its
\* movie was answered 409.
C19_OneSucceedsOther409 ==
    /\ \A m, n \in movies : m.title = n.title /\ m.year = n.year => m = n
    /\ \A i \in 1..MaxThreads : inflight[i].pc = "done" => inflight[i].status \in {200, 409}

====
